---- MODULE Spec2Model ----
(***************************************************************************)
(* PLTU simulator: the zustand store (updateLever, its debounced timer    *)
(* callback, startSystem, stopSystem, resetSystem, shutdownSystem,         *)
(* updateEarnings, updateGradualMovement) and the physics engine it calls  *)
(* (calculateSystemState with its boiler, turbine and water stages,        *)
(* interpolateValue, calculateEarnings).                                   *)
(*                                                                         *)
(* Numbers.  The program computes in IEEE doubles; the model computes in   *)
(* fixed point.  A quantity q (a temperature, a pressure, a flow, a speed,  *)
(* a load, a lever percentage, an amount of money, a dimensionless factor) *)
(* is held as the integer round(q * U).  Times (Date.now(), startTime,     *)
(* lastUpdateTime, deltaTime, shutdownTime) are held in milliseconds, so   *)
(* the program's "seconds" value s is the integer 1000 * s.  Products and  *)
(* quotients are rounded to the nearest unit (MulDiv).  Math.exp is        *)
(* computed by argument halving and a Taylor polynomial (ExpNeg).          *)
(***************************************************************************)
EXTENDS Integers, Sequences, FiniteSets, TLC

\* Fixed-point resolution: 1.0 is U units (four decimal places).
U == 100 * 100

Abs(x) == IF x < 0 THEN 0 - x ELSE x
Max(a, b) == IF a >= b THEN a ELSE b
Min(a, b) == IF a <= b THEN a ELSE b

\* JavaScript's  v || d  on a number: 0 (like null and undefined) is falsy.
OrElse(v, d) == IF v = 0 THEN d ELSE v

\* <<q, r>> with a * b = q * c + r and 0 <= r < c, for a, b >= 0 and
\* 0 < c < 2^30, without forming a product above 2^31 - 1.
RECURSIVE MulDivQR(_, _, _)
MulDivQR(a, b, c) ==
    IF b = 0 \/ a <= 2147483647 \div b
    THEN <<(a * b) \div c, (a * b) % c>>
    ELSE LET h == MulDivQR(a, b \div 2, c)
             q2 == 2 * h[1] + (2 * h[2]) \div c
             r2 == (2 * h[2]) % c
             s == r2 + (a % c)
         IN IF b % 2 = 0 THEN <<q2, r2>>
            ELSE <<q2 + (a \div c) + (s \div c), s % c>>

\* a * b / c rounded to the nearest integer (halves away from zero), c > 0.
MulDiv(a, b, c) ==
    LET qr == MulDivQR(Abs(a), Abs(b), c)
        m == qr[1] + (IF 2 * qr[2] >= c THEN 1 ELSE 0)
    IN IF (a < 0) = (b < 0) THEN m ELSE 0 - m

\* Product and quotient of two fixed-point quantities.
MulU(a, b) == MulDiv(a, b, U)
DivU(a, b) == IF b < 0 THEN MulDiv(0 - a, U, 0 - b) ELSE MulDiv(a, U, b)

\* Math.exp(-x) for a fixed-point x: exp(-x) = exp(-x/2)^2 down to
\* x <= 1/4, then 1 - x + x^2/2 - x^3/6 + x^4/24.  Below exp(-25) the
\* result is less than half a unit.  For x < 0 it is 1 / exp(x).
RECURSIVE ExpNeg(_)
ExpNeg(x) ==
    IF x = 0 THEN U
    ELSE IF x < 0
         THEN LET e == ExpNeg(0 - x) IN IF e = 0 THEN 2147483647 ELSE DivU(U, e)
    ELSE IF x > 25 * U THEN 0
    ELSE IF x > U \div 4
         THEN LET h == ExpNeg(x \div 2) IN MulU(h, h)
    ELSE LET x2 == MulU(x, x)
             x3 == MulU(x2, x)
             x4 == MulU(x3, x)
         IN U - x + (x2 \div 2) - (x3 \div 6) + (x4 \div 24)

(***************************************************************************)
(* utils/calculation: constants                                            *)
(***************************************************************************)
TURBINE_EFFICIENCY_BASE == (88 * U) \div 100
GENERATOR_EFFICIENCY == (98 * U) \div 100
STEAM_TEMP_BASE == 540 * U
STEAM_PRESSURE_BASE == (165 * U) \div 10
COAL_CALORIFIC_VALUE == 25000
\* SPECIFIC_HEAT_WATER * 1000, the divisor of the temperature response
SPECIFIC_HEAT_WATER_x1000 == 4186
\* response times, in seconds
TURBINE_RESPONSE_TIME == 30
STEAM_RESPONSE_TIME == 45
TEMPERATURE_RESPONSE_TIME == 40
PRESSURE_RESPONSE_TIME == 20

LeverIds == {"coal_feed", "feedwater", "boiler_pressure", "steam_turbine",
             "condenser", "cooling_water", "air_supply", "fuel_injection",
             "steam_flow", "water_level", "exhaust_gas", "emergency_valve"}

\* Field f of a partial record, or d when the record does not have it
\* (JavaScript:  r.f || d  with r.f undefined or 0).
Field(r, f, d) == IF f \in DOMAIN r THEN OrElse(r[f], d) ELSE d

\* Object spread  {...old, ...new}.
Spread(old, new) ==
    [f \in (DOMAIN old) \cup (DOMAIN new) |->
        IF f \in DOMAIN new THEN new[f] ELSE old[f]]

(***************************************************************************)
(* interpolateValue(currentValue, targetValue, responseTime, deltaTime)    *)
(***************************************************************************)
interpolateValue(currentValue, targetValue, responseTime, deltaTime) ==
    IF Abs(currentValue - targetValue) < U \div 100
    THEN targetValue
    ELSE LET \* deltaTime / (responseTime / 3), deltaTime in ms
             x == MulDiv(deltaTime, 3 * U, 1000 * responseTime)
             factor == U - ExpNeg(x)
         IN currentValue + MulU(targetValue - currentValue, factor)

(***************************************************************************)
(* calculateBoilerResponse(params, currentState, deltaTime)                *)
(***************************************************************************)
\* 1. air-fuel ratio analysis; lever percentages to 0..1 fractions first
ratioEfficiency(params) ==
    LET fuelRate == MulDiv(params.coalFeed, 1, 100)
        airRate == MulDiv(params.airSupply, 1, 100)
        stoichiometricRatio == (155 * U) \div 10
        actualRatio == DivU(airRate, Max(fuelRate, U \div 100))
    IN Max((4 * U) \div 10,
           U - DivU(Abs(actualRatio - stoichiometricRatio), stoichiometricRatio))

\* 2. combustion efficiency
combustionEfficiency(params) ==
    LET fuelRate == MulDiv(params.coalFeed, 1, 100)
    IN MulU(ratioEfficiency(params), (7 * U) \div 10 + MulDiv(fuelRate, 3, 10))

\* 3.-4. heat transfer and the temperature change of this time slice
tempChange(params, currentTemp, deltaTime) ==
    LET fuelRate == MulDiv(params.coalFeed, 1, 100)
        heatInput == MulU(fuelRate * COAL_CALORIFIC_VALUE, combustionEfficiency(params))
        \* heatLoss = currentTemp * 0.02 * deltaTime; both terms of netHeat are
        \* divided by SPECIFIC_HEAT_WATER * 1000 before they are subtracted
        netHeatPerCapacity ==
            MulDiv(heatInput, 1, SPECIFIC_HEAT_WATER_x1000)
            - MulDiv(MulDiv(currentTemp, 2, 100), deltaTime, 1000 * SPECIFIC_HEAT_WATER_x1000)
    IN MulDiv(netHeatPerCapacity, deltaTime, 1000 * 3600)

\* 5. Math.pow(newTemp / 100, 4) * 0.1
saturationPressure(newTemp) ==
    LET t == MulDiv(newTemp, 1, 100)
        t2 == MulU(t, t)
    IN MulDiv(t2, t2, 10 * U)

\* 4. the new temperature, approached through interpolateValue
newTempOf(params, currentTemp, deltaTime) ==
    interpolateValue(currentTemp, currentTemp + tempChange(params, currentTemp, deltaTime),
                     TEMPERATURE_RESPONSE_TIME, deltaTime)

\* 5. saturationPressure * (1 + fuelRate * 0.5)
targetPressureOf(params, newTemp) ==
    MulU(saturationPressure(newTemp), U + MulDiv(MulDiv(params.coalFeed, 1, 100), 5, 10))

\* 6. steam generation: maxSteamFlow * steamEfficiency
targetSteamFlowOf(params, newTemp) ==
    MulU(MulDiv(params.coalFeed, 1, 100) * 500,
         MulU(Min(U, DivU(newTemp, STEAM_TEMP_BASE)), combustionEfficiency(params)))

BoilerFrom(currentPressure, currentFlow, deltaTime, dT, newTemp, targetPressure, targetSteamFlow) ==
    [mainSteamFlow |->
         interpolateValue(currentFlow, targetSteamFlow, STEAM_RESPONSE_TIME, deltaTime),
     mainSteamTemp |-> newTemp,
     mainSteamPressure |->
         interpolateValue(currentPressure, targetPressure, PRESSURE_RESPONSE_TIME, deltaTime),
     targetMainSteamFlow |-> targetSteamFlow,
     targetMainSteamTemp |-> newTemp + dT,
     targetMainSteamPressure |-> targetPressure]

BoilerWithTemp(params, currentState, deltaTime, dT, newTemp) ==
    BoilerFrom(Field(currentState, "mainSteamPressure", STEAM_PRESSURE_BASE),
               Field(currentState, "mainSteamFlow", 0),
               deltaTime, dT, newTemp,
               targetPressureOf(params, newTemp),
               targetSteamFlowOf(params, newTemp))

calculateBoilerResponse(params, currentState, deltaTime) ==
    BoilerWithTemp(params, currentState, deltaTime,
        tempChange(params, Field(currentState, "mainSteamTemp", STEAM_TEMP_BASE), deltaTime),
        newTempOf(params, Field(currentState, "mainSteamTemp", STEAM_TEMP_BASE), deltaTime))

(***************************************************************************)
(* calculateTurbineResponse(params, currentState, deltaTime)               *)
(***************************************************************************)
\* 1.-3. mechanical power from the steam conditions and the valve opening
maxMechanicalPower(params, currentState) ==
    LET mainSteamPressure == Field(currentState, "mainSteamPressure", STEAM_PRESSURE_BASE)
        mainSteamTemp == Field(currentState, "mainSteamTemp", STEAM_TEMP_BASE)
        mainSteamFlow == Field(currentState, "mainSteamFlow", 0)
        valveOpening == MulDiv(params.steamTurbine, 1, 100)
        steamEnthalpy == 2 * mainSteamTemp + 2500 * U
        condenserEnthalpy == 2 * 40 * U + 2500 * U
        availableWork == steamEnthalpy - condenserEnthalpy
        pressureRatio == MulDiv(mainSteamPressure, 1, 5)
        isentropicEfficiency ==
            MulU(TURBINE_EFFICIENCY_BASE, (8 * U) \div 10 + MulDiv(valveOpening, 2, 10))
        actualEfficiency ==
            MulU(isentropicEfficiency, Min(U, MulDiv(pressureRatio, 1, 3)))
        \* mainSteamFlow * availableWork * actualEfficiency / 3600
        steamPower == MulDiv(mainSteamFlow, MulU(availableWork, actualEfficiency), 3600 * U)
    IN MulU(steamPower, valveOpening)

\* 4.-5. speed and load approach their targets through interpolateValue
TurbineFrom(currentRPM, currentLoad, deltaTime, targetRPM, targetLoad) ==
    [turbineSpeed |->
         interpolateValue(currentRPM, targetRPM, TURBINE_RESPONSE_TIME, deltaTime),
     load |-> interpolateValue(currentLoad, targetLoad, TURBINE_RESPONSE_TIME, deltaTime),
     targetTurbineSpeed |-> targetRPM,
     targetLoad |-> targetLoad]

TurbineWithPower(params, currentState, deltaTime, mech) ==
    TurbineFrom(Field(currentState, "turbineSpeed", 1800 * U),
                Field(currentState, "load", 0),
                deltaTime,
                \* 3000 * (maxMechanicalPower / 600)
                3000 * MulDiv(mech, 1, 600),
                \* Math.min(maxElectricalPower, loadDemand * 600)
                Min(MulU(mech, GENERATOR_EFFICIENCY),
                    MulDiv(params.steamFlow, 1, 100) * 600))

calculateTurbineResponse(params, currentState, deltaTime) ==
    TurbineWithPower(params, currentState, deltaTime,
                     maxMechanicalPower(params, currentState))

(***************************************************************************)
(* calculateWaterSystemResponse(params, currentState, deltaTime)           *)
(***************************************************************************)
calculateWaterSystemResponse(params, currentState, deltaTime) ==
    LET load == Field(currentState, "load", 0)
        cool == MulDiv(params.coolingWater, 1, 50)
    IN [condensateWaterFlow |-> load * 2,
        circulatingWaterFlow |-> 1000 * cool]

(***************************************************************************)
(* Derived indicators of calculateSystemState that the store or another    *)
(* indicator reads.                                                        *)
(***************************************************************************)
\* calculateFrequency(load, 600) = 50 + (load / 600 - 1) * 0.5
calculateFrequencyFromLoad(load) ==
    50 * U + MulDiv(MulDiv(load, 1, 600) - U, 5, 10)

calculateCoalLoadingRate(params) == params.coalFeed * 2
calculateWaterLoadingRate(params) == params.feedwater * 5
calculateFuelConsumptionRate(params) == MulDiv(params.coalFeed, 25, 10)

(***************************************************************************)
(* The SCADA indicators of calculateSystemState: closed-form functions of  *)
(* params and of the values the stages returned.  Nothing in the engine    *)
(* or the store reads them back.                                           *)
(***************************************************************************)
BOILER_EFFICIENCY_BASE == (85 * U) \div 100
CONDENSER_PRESSURE_BASE == 5 * U

\* params.f ?? d : the default only when the property is absent.
Nullish(r, f, d) == IF f \in DOMAIN r THEN r[f] ELSE d

Clamp(lo, hi, x) == Max(lo, Min(hi, x))

\* Math.max(floor, 1 - |airSupply / max(coalFeed, 1) - 15.5| / 15.5)
AirFuelEfficiency(params, floor) ==
    LET airFuelRatio == DivU(params.airSupply, Max(params.coalFeed, U))
        optimalRatio == (155 * U) \div 10
    IN Max(floor, U - DivU(Abs(airFuelRatio - optimalRatio), optimalRatio))

calculateBoilerEfficiency(params) ==
    LET levelEfficiency ==
            Max((8 * U) \div 10, U - MulDiv(Abs(params.waterLevel - 50 * U), 1, 50))
        feedEfficiency == Max((6 * U) \div 10, MulDiv(params.coalFeed, 1, 100))
    IN MulU(MulU(MulU(BOILER_EFFICIENCY_BASE, AirFuelEfficiency(params, (7 * U) \div 10)),
                 levelEfficiency),
            feedEfficiency)

\* kg/s: coalFeed * 25000 * boilerEfficiency / (steamEnthalpy - feedwaterEnthalpy)
calculateSteamGeneration(params) ==
    LET feedwaterEnthalpy ==
            MulDiv(params.feedwater * 2 + 50 * U, SPECIFIC_HEAT_WATER_x1000, 1000)
        steamEnthalpy == 2 * (STEAM_TEMP_BASE + params.steamTurbine * 2) + 2500 * U
    IN Max(0, MulDiv(MulU(params.coalFeed, calculateBoilerEfficiency(params)),
                     25000 * U, steamEnthalpy - feedwaterEnthalpy))

calculateOilTankLevel(params) ==
    LET consumptionRate == MulDiv(MulDiv(Field(params, "turbineSpeed", 0), 1, 3000), 1, 10)
        tempEffect ==
            Max(U \div 2,
                U - MulDiv(Field(params, "generatorTemp", 60 * U) - 60 * U, 1, 100))
    IN Clamp(0, 100 * U, MulU(100 * U - consumptionRate * 10, tempEffect))

calculateSteamOutTurbineTemp(params) ==
    LET speedEffect == MulDiv(Field(params, "turbineSpeed", 0), 1, 3000)
        flowEffect == MulDiv(params.steamFlow, 1, 100)
    IN Clamp(40 * U, 300 * U,
             MulU(MulU(Nullish(params, "mainSteamTemp", 540 * U) - 200 * U,
                       (8 * U) \div 10 + MulDiv(speedEffect, 4, 10)),
                  (9 * U) \div 10 + MulDiv(flowEffect, 2, 10)))

calculateSurgeTankTemp(params) ==
    LET flowEffect == MulDiv(params.steamFlow, 1, 100)
    IN Clamp(50 * U, 400 * U,
             MulU(MulDiv(Nullish(params, "mainSteamTemp", 540 * U), 8, 10),
                  (9 * U) \div 10 + MulDiv(flowEffect, 2, 10)))

calculateCondenserOutTemp(params) ==
    LET condenserEffect == MulDiv(params.condenser, 1, 100)
        coolingEffect == MulDiv(params.coolingWater, 1, 100)
    IN Clamp(30 * U, 80 * U,
             MulU(40 * U + MulU(20 * U, U - condenserEffect),
                  (8 * U) \div 10 + MulDiv(coolingEffect, 4, 10)))

calculateCoolingWaterTemp(params) ==
    LET flowEffect == MulDiv(params.coolingWater, 1, 100)
        tempRise == MulU(15 * U, U - MulDiv(flowEffect, 1, 2))
    IN Clamp(20 * U, 50 * U,
             Max(25 * U + tempRise, Nullish(params, "condenserOutTemp", 40 * U) - 10 * U))

calculateCondenserPressure(params) ==
    LET condenserEffect == MulDiv(params.condenser, 1, 100)
        coolingEffect == MulDiv(params.coolingWater, 1, 100)
    IN Clamp(U, 10 * U,
             MulU(MulU(CONDENSER_PRESSURE_BASE, (12 * U) \div 10 - MulDiv(condenserEffect, 4, 10)),
                  (11 * U) \div 10 - MulDiv(coolingEffect, 2, 10)))

calculateFeedwaterTemp(params) ==
    Clamp(50 * U, 250 * U,
          50 * U + MulDiv(Nullish(params, "heater1Temp", 150 * U), 50, 100)
                 + MulDiv(Nullish(params, "heater2Temp", 130 * U), 50, 100)
                 + MulDiv(Nullish(params, "heater3Temp", 110 * U), 50, 100)
                 + MulDiv(Nullish(params, "heater4Temp", 90 * U), 50, 100))

calculateFeedwaterPressure(params) ==
    LET flowEffect == MulDiv(params.feedwater, 1, 100)
    IN Max(U \div 10,
           MulU(MulDiv(Nullish(params, "mainSteamPressure", (165 * U) \div 10), 12, 10),
                (8 * U) \div 10 + MulDiv(flowEffect, 4, 10)))

calculateHeaterTemps(params) ==
    [h1 |-> Clamp(100 * U, 300 * U, 200 * U + params.steamFlow),
     h2 |-> Clamp(80 * U, 280 * U, 180 * U + MulDiv(params.steamFlow, 80, 100)),
     h3 |-> Clamp(60 * U, 260 * U, 160 * U + MulDiv(params.steamFlow, 60, 100)),
     h4 |-> Clamp(40 * U, 240 * U, 140 * U + MulDiv(params.steamFlow, 40, 100))]

calculateGeneratorTemp(params) ==
    Clamp(40 * U, 120 * U,
          60 * U + MulDiv(Nullish(params, "load", 0), 40, 600)
                 + MulDiv(Nullish(params, "turbineSpeed", 0), 20, 3000))

calculateOilCoolerTemp(params) ==
    Clamp(30 * U, 80 * U,
          40 * U + MulDiv(Nullish(params, "generatorTemp", 60 * U), 20, 100)
                 + MulDiv(Nullish(params, "turbineSpeed", 0), 15, 3000))

calculateGeneratorAirCoolerTemp(params) ==
    Clamp(25 * U, 60 * U,
          35 * U + MulDiv(Nullish(params, "generatorTemp", 60 * U), 15, 100)
                 + MulDiv(Nullish(params, "load", 0), 10, 600))

\* coalFeed * efficiency * 3
calculateCombustionSpeed(params) ==
    MulU(params.coalFeed, AirFuelEfficiency(params, (6 * U) \div 10)) * 3

\* steamGeneration * 3600, in whole t/h.
calculateWaterBoilingRate(params) == MulDiv(calculateSteamGeneration(params), 3600, U)
calculateSteamGenerationRate(params) == MulDiv(calculateSteamGeneration(params), 3600, U)

\* Percent.
calculateEfficiency(params) ==
    MulU(MulU(calculateBoilerEfficiency(params), TURBINE_EFFICIENCY_BASE),
         GENERATOR_EFFICIENCY) * 100

\* coalFeed * 0.7 * (44 / 12) * (100 - efficiency) / 100 * 1000, in whole kg/h.
calculateEmissionsRate(params) ==
    MulDiv(MulDiv(MulDiv(params.coalFeed, 7 * 44, 10 * 12),
                  100 * U - calculateEfficiency(params), 100 * U),
           1000, U)

\* coalFeed * 25000 / (load * 1000 * 3600); 0 without load or efficiency.
calculateHeatRate(params) ==
    IF Nullish(params, "load", 0) <= 0 \/ calculateEfficiency(params) <= 0
    THEN 0
    ELSE MulDiv(params.coalFeed, 2500, params.load * 36)

\* The equipment temperatures, which read generatorTemp.
EquipmentTemps(params, load, turbineSpeed, generatorTemp) ==
    [generatorTemp |-> generatorTemp,
     oilCoolerTemp |->
         calculateOilCoolerTemp(
             Spread(params, [generatorTemp |-> generatorTemp, turbineSpeed |-> turbineSpeed])),
     generatorAirCoolerTemp |->
         calculateGeneratorAirCoolerTemp(
             Spread(params, [generatorTemp |-> generatorTemp, load |-> load]))]

\* The heater temperatures as fields of the state.
HeaterFields(heaterTemps) ==
    [heater1Temp |-> heaterTemps.h1, heater2Temp |-> heaterTemps.h2,
     heater3Temp |-> heaterTemps.h3, heater4Temp |-> heaterTemps.h4]

\* The temperatures that read condenserOutTemp.
CondenserTemps(params, condenserOutTemp) ==
    [condenserOutTemp |-> condenserOutTemp,
     coolingWaterTemp |->
         calculateCoolingWaterTemp(Spread(params, [condenserOutTemp |-> condenserOutTemp]))]

\* Every indicator calculateSystemState derives after the three stages,
\* from params and the stage values mainSteamTemp, mainSteamFlow,
\* mainSteamPressure, turbineSpeed and load.
ScadaIndicators(params, stages) ==
    Spread(
        Spread(
            Spread(EquipmentTemps(params, stages.load, stages.turbineSpeed,
                       calculateGeneratorTemp(
                           Spread(params, [load |-> stages.load,
                                           turbineSpeed |-> stages.turbineSpeed]))),
                   HeaterFields(calculateHeaterTemps(
                       Spread(params, [mainSteamTemp |-> stages.mainSteamTemp,
                                       steamFlow |-> stages.mainSteamFlow])))),
            CondenserTemps(params, calculateCondenserOutTemp(params))),
        [oilTankLevel |-> calculateOilTankLevel(params),
         steamOutTurbineTemp |->
             calculateSteamOutTurbineTemp(
                 Spread(params, [mainSteamTemp |-> stages.mainSteamTemp,
                                 turbineSpeed |-> stages.turbineSpeed])),
         surgeTankTemp |->
             calculateSurgeTankTemp(
                 Spread(params, [mainSteamTemp |-> stages.mainSteamTemp,
                                 steamFlow |-> stages.mainSteamFlow])),
         condenserPressure |-> calculateCondenserPressure(params),
         feedwaterTemp |-> calculateFeedwaterTemp(params),
         feedwaterPressure |->
             calculateFeedwaterPressure(
                 Spread(params, [mainSteamPressure |-> stages.mainSteamPressure])),
         combustionSpeed |-> calculateCombustionSpeed(params),
         waterBoilingRate |-> calculateWaterBoilingRate(params),
         steamGenerationRate |-> calculateSteamGenerationRate(params),
         efficiency |-> calculateEfficiency(params),
         emissionsRate |-> calculateEmissionsRate(params),
         heatRate |-> calculateHeatRate(params)])

(***************************************************************************)
(* calculateSystemState(leverValues, currentState, deltaTime)              *)
(***************************************************************************)
\* Trip conditions, read from the state the tick starts from.
TripCondition(currentState) ==
    LET boilerTemp == Field(currentState, "mainSteamTemp", STEAM_TEMP_BASE)
        waterLevel == 60 * U
        currentTurbineRPM == Field(currentState, "turbineSpeed", 1800 * U)
    IN \/ boilerTemp > 620 * U
       \/ waterLevel < 8 * U
       \/ waterLevel > 95 * U
       \/ currentTurbineRPM > 3600 * U

\* A trip flag that forgets the previous trip: the latch left out.
TripOfNoLatch(currentState) == TripCondition(currentState)

TripOf(currentState) == currentState.trip \/ TripCondition(currentState)

\* A countdown without the floor at 0.
ShutdownNoFloor(currentState, deltaTime) ==
    [trip |-> TRUE, shutdownTime |-> currentState.shutdownTime - deltaTime]

\* Shutdown mode: the partial state returned while shutdownTime > 0.
ShutdownResponse(currentState, deltaTime) ==
    LET boilerTemp == Field(currentState, "mainSteamTemp", STEAM_TEMP_BASE)
        shutdownTime == currentState.shutdownTime - deltaTime
        \* Math.max(0, shutdownTime / 10), shutdownTime in ms
        shutdownFactor == Max(0, MulDiv(shutdownTime, U, 10 * 1000))
    IN [trip |-> TRUE,
        shutdownTime |-> Max(0, shutdownTime),
        mainSteamTemp |-> MulDiv(boilerTemp, 995, 1000),
        turbineSpeed |-> MulDiv(Field(currentState, "turbineSpeed", 1800 * U), 98, 100),
        load |-> MulU(Field(currentState, "load", 0), shutdownFactor),
        mainSteamFlow |-> MulU(Field(currentState, "mainSteamFlow", 0), shutdownFactor),
        mainSteamPressure |->
            MulU(Field(currentState, "mainSteamPressure", STEAM_PRESSURE_BASE),
                 shutdownFactor)]

\* Lever values passed on as they are, tripped or not.
ForceLeversNone(leverValues, trip) == leverValues

\* If tripped, force fuel and valve to 0.
ForceLevers(leverValues, trip) ==
    IF trip
    THEN [leverValues EXCEPT !["coal_feed"] = 0, !["steam_turbine"] = 0]
    ELSE leverValues

ParamsOf(leverValues) ==
    [coalFeed |-> leverValues["coal_feed"],
     feedwater |-> leverValues["feedwater"],
     boilerPressure |-> leverValues["boiler_pressure"],
     steamTurbine |-> leverValues["steam_turbine"],
     condenser |-> leverValues["condenser"],
     coolingWater |-> leverValues["cooling_water"],
     airSupply |-> leverValues["air_supply"],
     fuelInjection |-> leverValues["fuel_injection"],
     steamFlow |-> leverValues["steam_flow"],
     waterLevel |-> leverValues["water_level"],
     exhaustGas |-> leverValues["exhaust_gas"],
     emergencyValve |-> leverValues["emergency_valve"]]

\* The indicators returned once the three stages have run.
StagesFrom(params, trip, boilerResponse, turbineResponse, waterResponse) ==
    [mainSteamFlow |-> boilerResponse.mainSteamFlow,
     mainSteamPressure |-> OrElse(boilerResponse.mainSteamPressure, STEAM_PRESSURE_BASE),
     mainSteamTemp |-> OrElse(boilerResponse.mainSteamTemp, STEAM_TEMP_BASE),
     turbineSpeed |-> turbineResponse.turbineSpeed,
     condensateWaterFlow |-> waterResponse.condensateWaterFlow,
     load |-> turbineResponse.load,
     frequency |-> calculateFrequencyFromLoad(turbineResponse.load),
     trip |-> trip,
     temperature |-> OrElse(boilerResponse.mainSteamTemp, STEAM_TEMP_BASE),
     pressure |-> OrElse(boilerResponse.mainSteamPressure, STEAM_PRESSURE_BASE),
     turbineRPM |-> turbineResponse.turbineSpeed,
     powerOutput |-> turbineResponse.load,
     circulatingWaterFlow |-> OrElse(waterResponse.circulatingWaterFlow, 1000 * U),
     totalWattageProduced |-> 0,
     coalLoadingRate |-> calculateCoalLoadingRate(params),
     waterLoadingRate |-> calculateWaterLoadingRate(params),
     fuelConsumptionRate |-> calculateFuelConsumptionRate(params)]

\* The three chained stages: each one reads the state spread with the
\* responses of the stages before it.
StagesAfterTurbine(params, trip, currentState, deltaTime, boilerResponse, turbineResponse) ==
    StagesFrom(params, trip, boilerResponse, turbineResponse,
               calculateWaterSystemResponse(
                   params, Spread(Spread(currentState, boilerResponse), turbineResponse),
                   deltaTime))

StagesAfterBoiler(params, trip, currentState, deltaTime, boilerResponse) ==
    StagesAfterTurbine(params, trip, currentState, deltaTime, boilerResponse,
        calculateTurbineResponse(params, Spread(currentState, boilerResponse), deltaTime))

StagesWithParams(params, trip, currentState, deltaTime) ==
    StagesAfterBoiler(params, trip, currentState, deltaTime,
                      calculateBoilerResponse(params, currentState, deltaTime))

StagesResponse(leverValues, currentState, deltaTime) ==
    StagesWithParams(ParamsOf(ForceLevers(leverValues, TripOf(currentState))),
                     TripOf(currentState), currentState, deltaTime)

calculateSystemState(leverValues, currentState, deltaTime) ==
    IF currentState.shutdownTime # 0 /\ currentState.shutdownTime > 0
    THEN ShutdownResponse(currentState, deltaTime)
    ELSE StagesResponse(leverValues, currentState, deltaTime)

\* The stage indicators together with the SCADA indicators.
WithScada(params, stages) == Spread(stages, ScadaIndicators(params, stages))

\* calculateSystemState with every indicator it returns: what a direct
\* caller of the function sees.
calculateSystemStateAll(leverValues, currentState, deltaTime) ==
    IF currentState.shutdownTime # 0 /\ currentState.shutdownTime > 0
    THEN ShutdownResponse(currentState, deltaTime)
    ELSE WithScada(ParamsOf(ForceLevers(leverValues, TripOf(currentState))),
                   StagesResponse(leverValues, currentState, deltaTime))

\* calculateEarnings(powerOutput, durationSeconds):
\* Math.max(0, powerOutput * 1000 * (durationSeconds / 3600) * 0.01),
\* the duration in ms.
calculateEarnings(powerOutput, durationSeconds) ==
    Max(0, MulDiv(powerOutput, durationSeconds, 360 * 1000))

(***************************************************************************)
(* store/simulatorStore                                                    *)
(***************************************************************************)
VARIABLES
    now,                 \* Date.now(), in ms
    levers,              \* levers[id] = [currentValue, targetValue]
    systemState,         \* the store's SystemState
    actualSystemValues,  \* actualSystemValues[id]; 0 stands for an absent key
    updateTimeout,       \* the debounce timer: [handle, live], see Debounce
    nRecomputes,         \* recomputes run so far (bounds the exploration)
    nClockSteps,         \* clock steps taken so far (bounds the exploration)
    lastTick,            \* Date.now() of the latest recompute; LoadTime before the first
    call,                \* a direct call of a function: [fn, args, results]
    intervalDue          \* next expiry of the page's 1 s interval; 0: no page mounted

vars == <<now, levers, systemState, actualSystemValues, updateTimeout,
          nRecomputes, nClockSteps, lastTick, call, intervalDue>>

\* ------------------------------------------------------------- bounds
\* Date.now() when the store module is loaded.
LoadTime == 1000
\* At most MaxSteps steps that move the clock (a pause of the user or the
\* expiry of the debounce timer) are explored.
MaxSteps == 3
\* Steps by which the clock advances between operations, in ms.
ClockSteps == {10000}
\* A long pause of the user, in ms; with long pauses at most MaxIdles pauses
\* and MaxRecomputes recomputes are explored, and a recompute sees at most
\* MaxDeltaTime ms since the previous one.
IdleStep == 20000000
MaxIdles == 4
MaxRecomputes == 2
MaxDeltaTime == 61000000
\* Levers the user moves, and the values requested (percent, fixed point).
MovedLevers == {"coal_feed", "steam_turbine", "steam_flow"}
RequestedValues == {0 - 20 * U, 100 * U, 150 * U}

\* SMOOTH_FACTORS of the store, fixed point.
SMOOTH_FACTORS ==
    [id \in LeverIds |->
        CASE id = "coal_feed" -> 500
          [] id = "feedwater" -> 800
          [] id = "boiler_pressure" -> 300
          [] id = "steam_turbine" -> 400
          [] id = "condenser" -> 600
          [] id = "cooling_water" -> 1000
          [] id = "air_supply" -> 700
          [] id = "fuel_injection" -> 1500
          [] id = "steam_flow" -> 500
          [] id = "water_level" -> 200
          [] id = "exhaust_gas" -> 800
          [] OTHER -> 2000]

\* A linear step of smoothFactor * dt of the distance, without the
\* exponential.
smoothApproachLinear(current, target, smoothFactor, dt) ==
    current + MulU(target - current, MulDiv(smoothFactor, dt, 1000))

\* smoothApproach(current, target, smoothFactor, dt), dt in ms
smoothApproach(current, target, smoothFactor, dt) ==
    current + MulU(target - current, U - ExpNeg(MulDiv(smoothFactor, dt, 1000)))

minValue(id) == 0
maxValue(id) == 100 * U

initialLevers == [id \in LeverIds |-> [currentValue |-> 0, targetValue |-> 0]]

initialSystemState ==
    [mainSteamFlow |-> 0,
     mainSteamPressure |-> 0,
     mainSteamTemp |-> 0,
     turbineSpeed |-> 0,
     condensateWaterFlow |-> 0,
     load |-> 0,
     frequency |-> 0,
     temperature |-> 0,
     pressure |-> 0,
     turbineRPM |-> 0,
     powerOutput |-> 0,
     circulatingWaterFlow |-> 0,
     totalWattageProduced |-> 0,
     coalLoadingRate |-> 0,
     waterLoadingRate |-> 0,
     fuelConsumptionRate |-> 0,
     targetMainSteamFlow |-> 0,
     targetMainSteamPressure |-> STEAM_PRESSURE_BASE,
     targetMainSteamTemp |-> STEAM_TEMP_BASE,
     targetTurbineSpeed |-> 0,
     targetLoad |-> 0,
     previousMainSteamFlow |-> 0,
     previousMainSteamPressure |-> STEAM_PRESSURE_BASE,
     previousMainSteamTemp |-> STEAM_TEMP_BASE,
     previousTurbineSpeed |-> 0,
     previousLoad |-> 0,
     lastUpdateTime |-> LoadTime,
     isRunning |-> FALSE,
     startTime |-> 0,          \* null
     totalEarnings |-> 0,
     trip |-> FALSE,
     shutdownTime |-> 0,
     turbineStatus |-> "stopped",
     generatorStatus |-> "offline"]

\* The store as the module leaves it once loaded.
StoreInit ==
    /\ now = LoadTime
    /\ levers = initialLevers
    /\ systemState = initialSystemState
    /\ actualSystemValues = [id \in LeverIds |-> 0]
    /\ updateTimeout = [handle |-> 0, live |-> {}]
    /\ nRecomputes = 0
    /\ nClockSteps = 0
    /\ lastTick = LoadTime

\* No function is called directly: the store is driven through its operations.
NoCall == [fn |-> "none", args |-> <<>>, results |-> <<>>]

\* The store on its own: no page is mounted, so no interval is set.
Init == StoreInit /\ call = NoCall /\ intervalDue = 0

\* The timers of updateLever: handle is the expiry time of the timer the
\* module variable updateTimeout refers to (0: null), live the expiry times
\* of the timers that are scheduled and neither expired nor cleared.
\* setTimeout without the clearTimeout before it.
DebounceNoClear(timeout, time) ==
    [handle |-> time + 200, live |-> timeout.live \cup {time + 200}]

\* if (updateTimeout) clearTimeout(updateTimeout);
\* updateTimeout = setTimeout(..., 200)
Debounce(timeout, time) ==
    [handle |-> time + 200, live |-> (timeout.live \ {timeout.handle}) \cup {time + 200}]

\* A reset that leaves the pending timeout alone.
ClearedNone(timeout) == timeout

\* clearTimeout(updateTimeout)
Cleared(timeout) == [timeout EXCEPT !.live = timeout.live \ {timeout.handle}]

\* The expiry time of the timer that expires first.
NextDue == CHOOSE d \in updateTimeout.live : \A e \in updateTimeout.live : d <= e

\* Time passes while no timer is pending.
advanceClock(d) ==
    /\ updateTimeout.live = {}
    /\ now' = now + d
    /\ nClockSteps' = nClockSteps + 1
    /\ UNCHANGED <<levers, systemState, actualSystemValues, updateTimeout, nRecomputes, lastTick, call, intervalDue>>

\* The requested value stored as it comes, without the clamp.
ClampLeverNone(id, value) == value

\* Math.max(lever.minValue, Math.min(lever.maxValue, value))
ClampLever(id, value) == Max(minValue(id), Min(maxValue(id), value))

\* An updateLever that stores the clamped value as the target only and
\* leaves currentValue to the gradual movement.
updateLeverTargetOnly(leverId, value) ==
    /\ levers' = [levers EXCEPT ![leverId].targetValue = ClampLever(leverId, value)]
    /\ updateTimeout' = Debounce(updateTimeout, now)
    /\ UNCHANGED <<now, systemState, actualSystemValues, nRecomputes, nClockSteps, lastTick, call, intervalDue>>

\* updateLever(leverId, value): the synchronous part.  The lever is written
\* at once; the pending recompute is cancelled and a new one is scheduled
\* 200 ms from now.
updateLever(leverId, value) ==
    /\ levers' = [levers EXCEPT ![leverId] =
                     [currentValue |-> ClampLever(leverId, value),
                      targetValue |-> ClampLever(leverId, value)]]
    /\ updateTimeout' = Debounce(updateTimeout, now)
    /\ UNCHANGED <<now, systemState, actualSystemValues, nRecomputes, nClockSteps, lastTick, call, intervalDue>>

\* The merge the timer callback of updateLever writes to systemState.
MergedState(state, currentTime, newSystemState, durationSeconds) ==
    Spread(Spread(state, newSystemState),
           [totalEarnings |->
                calculateEarnings(Field(newSystemState, "powerOutput", 0), durationSeconds),
            \* powerOutput * 1000 * durationSeconds / 3600 * 1000, in whole Wh
            totalWattageProduced |->
                MulDiv(Field(newSystemState, "powerOutput", 0), durationSeconds, 36000),
            lastUpdateTime |-> currentTime,
            turbineStatus |->
                IF Field(newSystemState, "turbineSpeed", 0) > 0
                THEN "running" ELSE "stopped",
            generatorStatus |->
                IF Field(newSystemState, "load", 0) > 0 THEN "online" ELSE "offline"])

\* deltaTime of a recompute at currentTime, in ms.
DeltaTime(state, currentTime) == currentTime - OrElse(state.lastUpdateTime, currentTime)

\* Time since startTime, in ms; 0 when the system was never started.
DurationSeconds(state, currentTime) ==
    IF state.startTime # 0 THEN currentTime - state.startTime ELSE 0

RecomputedState(lv, state, currentTime) ==
    MergedState(state, currentTime,
                calculateSystemState(lv, state, DeltaTime(state, currentTime)),
                DurationSeconds(state, currentTime))

\* The pending timer of updateLever expires and its callback runs: the
\* debounced recompute, 200 ms after the last lever update.
fireTimer ==
    /\ updateTimeout.live # {}
    /\ now' = NextDue
    /\ systemState' =
           RecomputedState([id \in LeverIds |-> levers[id].currentValue],
                           systemState, NextDue)
    /\ updateTimeout' = [updateTimeout EXCEPT !.live = updateTimeout.live \ {NextDue}]
    /\ nRecomputes' = nRecomputes + 1
    /\ lastTick' = NextDue
    /\ UNCHANGED <<levers, actualSystemValues, nClockSteps, call, intervalDue>>

\* The effect of the page that owns the interval,
\*   useEffect(() => { const interval = setInterval(..., 1000);
\*                     return () => clearInterval(interval) },
\*             [systemState.isRunning, updateEarnings]):
\* when an operation changes isRunning the interval is cleared and set anew,
\* so it expires next 1000 ms from now.  Without a page there is none.
IntervalAfter(isRunning) ==
    IF intervalDue # 0 /\ isRunning # systemState.isRunning
    THEN now + 1000
    ELSE intervalDue

\* A start that stamps startTime with the current time on every call.
startSystemRestamp ==
    /\ systemState' = [systemState EXCEPT !.isRunning = TRUE, !.startTime = now]
    /\ UNCHANGED <<now, levers, actualSystemValues, updateTimeout, nRecomputes, nClockSteps, lastTick, call>>
    /\ intervalDue' = IntervalAfter(TRUE)

startSystem ==
    /\ systemState' = [systemState EXCEPT
                          !.isRunning = TRUE,
                          !.startTime = OrElse(systemState.startTime, now)]
    /\ UNCHANGED <<now, levers, actualSystemValues, updateTimeout, nRecomputes, nClockSteps, lastTick, call>>
    /\ intervalDue' = IntervalAfter(TRUE)

stopSystem ==
    /\ systemState' = [systemState EXCEPT !.isRunning = FALSE]
    /\ UNCHANGED <<now, levers, actualSystemValues, updateTimeout, nRecomputes, nClockSteps, lastTick, call>>
    /\ intervalDue' = IntervalAfter(FALSE)

\* A reset that restores the baseline but keeps the trip flag.
ResetKeepsTrip == [initialSystemState EXCEPT !.trip = systemState.trip]

\* The state resetSystem installs.
ResetState == [initialSystemState EXCEPT !.trip = FALSE, !.shutdownTime = 0]

resetSystem ==
    /\ updateTimeout' = Cleared(updateTimeout)
    /\ levers' = initialLevers
    /\ systemState' = ResetState
    /\ actualSystemValues' = [id \in LeverIds |-> 0]
    /\ UNCHANGED <<now, nRecomputes, nClockSteps, lastTick, call>>
    /\ intervalDue' = IntervalAfter(FALSE)

\* A shutdown that starts the countdown and leaves the trip flag as it is.
ShutdownNoTrip(state) == [state EXCEPT !.shutdownTime = 10 * 1000]

\* The state shutdownSystem installs: a 10 second countdown, tripped.
ShutdownState(state) == [state EXCEPT !.shutdownTime = 10 * 1000, !.trip = TRUE]

shutdownSystem ==
    /\ systemState' = ShutdownState(systemState)
    /\ UNCHANGED <<now, levers, actualSystemValues, updateTimeout, nRecomputes, nClockSteps, lastTick, call, intervalDue>>

\* What updateEarnings writes to systemState.
EarningsState(state, currentTime) ==
    IF ~state.isRunning \/ state.startTime = 0
    THEN state
    ELSE [state EXCEPT !.totalEarnings =
             calculateEarnings(state.powerOutput, currentTime - state.startTime)]

updateEarnings ==
    /\ systemState' = EarningsState(systemState, now)
    /\ UNCHANGED <<now, levers, actualSystemValues, updateTimeout, nRecomputes, nClockSteps, lastTick, call, intervalDue>>

\* updateGradualMovement: a lever whose currentValue is more than 0.1 away
\* from its targetValue moves towards it by smoothApproach over 100 ms.
Lagging(id) == Abs(levers[id].currentValue - levers[id].targetValue) > U \div 10

GradualValue(id) ==
    smoothApproach(OrElse(actualSystemValues[id], levers[id].currentValue),
                   levers[id].targetValue, SMOOTH_FACTORS[id], 100)

updateGradualMovement ==
    /\ actualSystemValues' =
           [id \in LeverIds |->
               IF Lagging(id) THEN GradualValue(id) ELSE actualSystemValues[id]]
    /\ levers' =
           [id \in LeverIds |->
               IF Lagging(id)
               THEN [levers[id] EXCEPT !.currentValue = GradualValue(id)]
               ELSE levers[id]]
    /\ UNCHANGED <<now, systemState, updateTimeout, nRecomputes, nClockSteps, lastTick, call, intervalDue>>

\* Steps that moved the clock so far.
ClockMoves == nClockSteps + nRecomputes

Next ==
    \/ \E d \in ClockSteps : ClockMoves < MaxSteps /\ advanceClock(d)
    \/ \E id \in MovedLevers : \E v \in RequestedValues : updateLever(id, v)
    \/ ClockMoves < MaxSteps /\ fireTimer
    \/ startSystem
    \/ stopSystem
    \/ resetSystem
    \/ shutdownSystem
    \/ updateEarnings
    \/ updateGradualMovement

Spec == Init /\ [][Next]_vars

(***************************************************************************)
(* The store left alone for hours between lever moves.  deltaTime of the   *)
(* timer callback is the wall-clock time since the previous recompute, so  *)
(* a long pause of the user is one long time slice of the engine.          *)
(***************************************************************************)
NextIdle ==
    \/ /\ nClockSteps < MaxIdles
       /\ now + IdleStep - systemState.lastUpdateTime <= MaxDeltaTime
       /\ advanceClock(IdleStep)
    \/ \E id \in MovedLevers : \E v \in RequestedValues : updateLever(id, v)
    \/ nRecomputes < MaxRecomputes /\ fireTimer

SpecIdle == Init /\ [][NextIdle]_vars

(***************************************************************************)
(* The store while the user drags a lever: updateLever is called again     *)
(* before the 200 ms of the previous call have passed.                     *)
(***************************************************************************)
\* Time between two calls of a burst, in ms; at most MaxWaits such waits
\* and MaxBursts recomputes are explored.
WaitSteps == {50, 150}
MaxWaits == 2
MaxBursts == 2

\* Time passes, less than what is left on the pending timer.
waitWithin(d) ==
    /\ updateTimeout.live # {}
    /\ now + d < NextDue
    /\ now' = now + d
    /\ nClockSteps' = nClockSteps + 1
    /\ UNCHANGED <<levers, systemState, actualSystemValues, updateTimeout, nRecomputes, lastTick, call, intervalDue>>

NextDebounce ==
    \/ \E d \in WaitSteps : nClockSteps < MaxWaits /\ waitWithin(d)
    \/ \E id \in MovedLevers : \E v \in RequestedValues : updateLever(id, v)
    \/ nRecomputes < MaxBursts /\ fireTimer

SpecDebounce == Init /\ [][NextDebounce]_vars

(***************************************************************************)
(* The store with the timers the application sets up and nothing else      *)
(* forced to happen: the page's 1 s interval, which calls updateEarnings   *)
(* while the system is running, and the debounce timer of updateLever.     *)
(* The user may start the system, move a lever or shut the system down,    *)
(* and may as well do nothing.                                             *)
(***************************************************************************)
\* The run is followed for Horizon ms after the module is loaded; a
\* shutdown is requested only while more than the 10 s of its countdown
\* (and one period) are left.  At most MaxUserTicks recomputes are explored.
Horizon == 14000
MaxUserTicks == 1

\* The page is mounted together with the store: its interval is set at
\* LoadTime and expires first 1000 ms later.
InitPeriodic == StoreInit /\ call = NoCall /\ intervalDue = LoadTime + 1000

\* setInterval(() => { if (systemState.isRunning) updateEarnings() }, 1000):
\* the interval expires on its own schedule, every 1000 ms from the time it
\* was set, whether or not a debounce timeout is pending.  Timers expire in
\* the order of their due times; two that are due together in either order.
earningsInterval ==
    /\ intervalDue # 0
    /\ updateTimeout.live # {} => intervalDue <= NextDue
    /\ intervalDue <= LoadTime + Horizon
    /\ now' = intervalDue
    /\ intervalDue' = intervalDue + 1000
    /\ systemState' =
           IF systemState.isRunning THEN EarningsState(systemState, intervalDue)
           ELSE systemState
    /\ nClockSteps' = nClockSteps + 1
    /\ UNCHANGED <<levers, actualSystemValues, updateTimeout, nRecomputes, lastTick, call>>

\* The debounce timer expires, no later than the interval does, while
\* recomputes are left to explore.
userTick ==
    /\ nRecomputes < MaxUserTicks
    /\ updateTimeout.live # {}
    /\ intervalDue # 0 => NextDue <= intervalDue
    /\ fireTimer

NextPeriodic ==
    \/ earningsInterval
    \/ userTick
    \/ nRecomputes < MaxUserTicks /\ updateLever("coal_feed", 100 * U)
    \/ ~systemState.isRunning /\ startSystem
    \/ systemState.shutdownTime = 0 /\ now + 11000 <= LoadTime + Horizon /\ shutdownSystem

\* The runtime runs a timer that is due; nothing obliges the user to act.
\* A pending debounce timer that is allowed to fire: setTimeout callbacks run
\* once their delay has passed, so this cannot hold forever.
TimerDue ==
    /\ updateTimeout.live # {}
    /\ nRecomputes < MaxUserTicks
    /\ intervalDue # 0 => NextDue <= intervalDue

\* The interval of the page keeps firing, and a scheduled debounce callback
\* is eventually run (weak fairness of userTick: firing it disables it).
SpecPeriodic ==
    InitPeriodic /\ [][NextPeriodic]_vars /\ WF_vars(earningsInterval) /\ []<>(~TimerDue)

(***************************************************************************)
(* utils/calculation, first variant: the oil tank level.                   *)
(***************************************************************************)
\* Math.sin(x) for a fixed-point x >= 0: x is reduced to [0, pi/2] and the
\* series x - x^3/3! + x^5/5! - x^7/7! + x^9/9! is summed.
SinQuarter(y) ==
    LET y2 == MulU(y, y)
        y3 == MulU(y2, y)
        y5 == MulU(y3, y2)
        y7 == MulU(y5, y2)
        y9 == MulU(y7, y2)
    IN y - (y3 \div 6) + (y5 \div 120) - (y7 \div 5040) + (y9 \div 362880)

Sin(x) ==
    LET pi == 31416
        r == x % (2 * pi)
        h == IF r > pi THEN r - pi ELSE r
        q == IF 2 * h > pi THEN pi - h ELSE h
    IN IF r > pi THEN 0 - SinQuarter(q) ELSE SinQuarter(q)

\* calculateOilTankLevel of the first variant: 80 % plus a sine of the wall
\* clock, Math.sin(Date.now() / 10000) * 5.  dateNow is in ms, so
\* dateNow / 10000 in fixed point is dateNow itself.
calculateOilTankLevelA(params, dateNow) ==
    Clamp(60 * U, 95 * U, 80 * U + MulU(Sin(dateNow), 5 * U))

\* The oilTankLevel field of the state calculateSystemState of the first
\* variant returns, called at wall-clock time dateNow (0: the shutdown
\* branch returns no such field).
OilTankLevelA(leverValues, currentState, deltaTime, dateNow) ==
    IF currentState.shutdownTime # 0 /\ currentState.shutdownTime > 0
    THEN 0
    ELSE calculateOilTankLevelA(ParamsOf(ForceLevers(leverValues, TripOf(currentState))),
                                dateNow)

(***************************************************************************)
(* utils/calculation, basic variant: four indicators, each a closed-form   *)
(* function of the lever values.                                           *)
(***************************************************************************)
calculateTemperature(leverValues) ==
    Clamp(0, 1200 * U,
          200 * U + leverValues["coal_feed"] * 8 + leverValues["fuel_injection"] * 6
                  + leverValues["air_supply"] * 4
                  - (leverValues["feedwater"] * 2 + leverValues["cooling_water"] * 3))

calculatePressure(leverValues) ==
    Clamp(0, 150 * U,
          20 * U + leverValues["boiler_pressure"] * 10 + leverValues["steam_flow"] * 8
                 - leverValues["emergency_valve"] * 15)

\* Math.min(cap, a * b) for a >= 0, without forming a product above the
\* cap when b >= 1.
MulUCapped(a, b, cap) == IF b >= U /\ a >= cap THEN cap ELSE Min(cap, MulU(a, b))

calculateTurbineRPM(leverValues) ==
    Max(0, MulUCapped(500 * U + leverValues["steam_turbine"] * 200
                              + leverValues["steam_flow"] * 150,
                      U + MulDiv(leverValues["condenser"], 1, 10),
                      3500 * U))

\* temp * pressure * rpm / 1,000,000
BasePower(temp, pressure, rpm) == MulDiv(MulU(temp, pressure), MulDiv(rpm, 1, 100), U * U)

\* The power without the cap at 500 MW.
calculatePowerNoCap(temp, pressure, rpm) == Max(BasePower(temp, pressure, rpm), 0)

calculatePower(temp, pressure, rpm) == Min(Max(BasePower(temp, pressure, rpm), 0), 500 * U)

PowerOf(temperature, pressure, turbineRPM) ==
    [temperature |-> temperature,
     pressure |-> pressure,
     turbineRPM |-> turbineRPM,
     powerOutput |-> calculatePower(temperature, pressure, turbineRPM)]

calculateSystemStateBasic(leverValues) ==
    PowerOf(calculateTemperature(leverValues), calculatePressure(leverValues),
            calculateTurbineRPM(leverValues))

(***************************************************************************)
(* The exported functions called directly, outside the store: a call is    *)
(* drawn with its arguments, and each invocation appends what the function *)
(* returned.  The wall clock may advance between two invocations.          *)
(***************************************************************************)
\* At most MaxInvocations invocations of one call, and MaxCallClockSteps
\* clock steps of CallClockStep ms around them.
MaxInvocations == 2
MaxCallClockSteps == 1
CallClockStep == 7000

AllAt(v) == [id \in LeverIds |-> v]

\* A plant in steady operation.
WarmState ==
    [initialSystemState EXCEPT
        !.mainSteamTemp = 540 * U, !.temperature = 540 * U,
        !.mainSteamPressure = (165 * U) \div 10, !.pressure = (165 * U) \div 10,
        !.mainSteamFlow = 250 * U,
        !.turbineSpeed = 3000 * U, !.turbineRPM = 3000 * U,
        !.load = 300 * U, !.powerOutput = 300 * U]

\* Lever vectors, previous states and time slices (ms) of the direct calls
\* of calculateSystemState; the vectors include values outside 0..100.
EngineLevers ==
    {AllAt(0), AllAt(50 * U)}
    \cup {[AllAt(50 * U) EXCEPT ![id] = v] :
             id \in {"coal_feed", "feedwater", "steam_flow"}, v \in {0 - 20 * U, 150 * U}}
EngineStates ==
    {initialSystemState, WarmState, [WarmState EXCEPT !.trip = TRUE], ShutdownState(WarmState)}
EngineDeltaTimes == {0 - 1000, 0, 100, 1000}

EngineCalls(fn) ==
    {[fn |-> fn,
      args |-> [leverValues |-> lv, currentState |-> cs, deltaTime |-> dt],
      results |-> <<>>] : lv \in EngineLevers, cs \in EngineStates, dt \in EngineDeltaTimes}

\* Arguments of smoothApproach and interpolateValue: values (percent or
\* physical units), smooth factors (1/s), response times (s), dt (ms).
SmoothValues == {0, 50 * U, 50 * U + 50, 100 * U, 0 - 30 * U}
SmoothRates == {200, 2000}
ResponseTimes == {TURBINE_RESPONSE_TIME, PRESSURE_RESPONSE_TIME}
SmoothDeltaTimes == {100, 1000, 60000}

SmoothCalls ==
    {[fn |-> "smoothApproach",
      args |-> [current |-> c, target |-> t, rate |-> k, dt |-> d],
      results |-> <<>>] :
        c \in SmoothValues, t \in SmoothValues, k \in SmoothRates, d \in SmoothDeltaTimes}
    \cup
    {[fn |-> "interpolateValue",
      args |-> [current |-> c, target |-> t, rate |-> k, dt |-> d],
      results |-> <<>>] :
        c \in SmoothValues, t \in SmoothValues, k \in ResponseTimes, d \in SmoothDeltaTimes}

\* Lever vectors of the basic variant: every combination of 0 and 100 on the
\* ten levers it reads (the other two at 50), and all twelve at 0, 1, 50 and
\* 100.
BasicSwept ==
    {"coal_feed", "fuel_injection", "air_supply", "feedwater", "cooling_water",
     "boiler_pressure", "steam_flow", "emergency_valve", "steam_turbine", "condenser"}
BasicLevers ==
    {[id \in LeverIds |-> IF id \in on THEN 100 * U ELSE IF id \in BasicSwept THEN 0 ELSE 50 * U] :
        on \in SUBSET BasicSwept}
    \cup {AllAt(0), AllAt(U), AllAt(50 * U), AllAt(100 * U)}
BasicCalls ==
    {[fn |-> "calculateSystemStateBasic", args |-> [leverValues |-> lv], results |-> <<>>] :
        lv \in BasicLevers}

\* A probe of one lever: calculateSystemState is called on pairs of lever
\* vectors that differ only in that lever.
ProbeLevers == {AllAt(0), AllAt(50 * U), [AllAt(50 * U) EXCEPT !["coal_feed"] = 5 * U]}
ProbeValues == {0, 50 * U, 100 * U}
ProbeStates == {initialSystemState, WarmState}
ProbeDeltaTimes == {100, 1000}
ProbeCalls == {[fn |-> "probe", args |-> [leverId |-> id], results |-> <<>>] : id \in LeverIds}

\* Whether some pair of the probe gives different states.
HasEffect(id) ==
    \E lv \in ProbeLevers : \E v \in ProbeValues :
    \E cs \in ProbeStates : \E dt \in ProbeDeltaTimes :
        calculateSystemStateAll(lv, cs, dt)
            # calculateSystemStateAll([lv EXCEPT ![id] = v], cs, dt)

InitCalls ==
    /\ StoreInit
    /\ intervalDue = 0
    /\ call \in EngineCalls("calculateSystemState") \cup EngineCalls("calculateSystemStateA")
                \cup SmoothCalls \cup BasicCalls \cup ProbeCalls

store == <<levers, systemState, actualSystemValues, updateTimeout, nRecomputes, lastTick>>

Returned(result) ==
    /\ Len(call.results) < MaxInvocations
    /\ call' = [call EXCEPT !.results = Append(call.results, result)]
    /\ UNCHANGED <<now, nClockSteps, store, intervalDue>>

invokeCalculateSystemState ==
    /\ call.fn = "calculateSystemState"
    /\ Returned(calculateSystemStateAll(call.args.leverValues, call.args.currentState,
                                        call.args.deltaTime))

invokeCalculateSystemStateA ==
    /\ call.fn = "calculateSystemStateA"
    /\ Returned([oilTankLevel |->
                    OilTankLevelA(call.args.leverValues, call.args.currentState,
                                  call.args.deltaTime, now)])

invokeSmoothApproach ==
    /\ call.fn = "smoothApproach"
    /\ Returned(smoothApproach(call.args.current, call.args.target, call.args.rate,
                               call.args.dt))

invokeInterpolateValue ==
    /\ call.fn = "interpolateValue"
    /\ Returned(interpolateValue(call.args.current, call.args.target, call.args.rate,
                                 call.args.dt))

invokeCalculateSystemStateBasic ==
    /\ call.fn = "calculateSystemStateBasic"
    /\ Returned(calculateSystemStateBasic(call.args.leverValues))

probeLever ==
    /\ call.fn = "probe"
    /\ Returned(HasEffect(call.args.leverId))

NextCalls ==
    \/ nClockSteps < MaxCallClockSteps /\ advanceClock(CallClockStep)
    \/ invokeCalculateSystemState
    \/ invokeCalculateSystemStateA
    \/ invokeSmoothApproach
    \/ invokeInterpolateValue
    \/ invokeCalculateSystemStateBasic
    \/ probeLever

SpecCalls == InitCalls /\ [][NextCalls]_vars

(***************************************************************************)
(* Properties of the trip / shutdown controller and of the earnings.       *)
(***************************************************************************)
\* The lever values a tripped tick must use: coal_feed and steam_turbine 0.
ZeroedLevers ==
    [id \in LeverIds |->
        IF id \in {"coal_feed", "steam_turbine"} THEN 0 ELSE levers[id].currentValue]

\* C1: once systemState.trip is true it stays true across every step (tick,
\* startSystem, stopSystem, shutdownSystem, updateEarnings); only a
\* resetSystem step changes it from true to false.
C1_TripLatch ==
    [][(systemState.trip /\ ~systemState'.trip) => resetSystem]_vars

\* A tripped state whose countdown has run out: ticks have run with trip set.
C1_Witness == systemState.trip /\ systemState.shutdownTime = 0

\* C2: a tick that runs the boiler/turbine stages while trip is set computes
\* them with coal_feed = 0 and steam_turbine = 0, whatever the levers are,
\* and leaves the levers of the store as they were.
C2_TripForcing ==
    [][(fireTimer /\ TripOf(systemState) /\ ~(systemState.shutdownTime > 0))
          => /\ systemState' = RecomputedState(ZeroedLevers, systemState, now')
             /\ systemState'.coalLoadingRate = 0
             /\ levers' = levers]_vars

\* The stages have run after the countdown ended (the pressure left 0) with
\* coal_feed at 100: the lever still reads 100 and no coal is loaded.
C2_Witness ==
    /\ systemState.trip
    /\ systemState.shutdownTime = 0
    /\ systemState.mainSteamPressure # 0
    /\ levers["coal_feed"].currentValue = 100 * U
    /\ levers["coal_feed"].targetValue = 100 * U
    /\ systemState.coalLoadingRate = 0

\* C3: resetSystem, from any reachable state, leaves trip false, shutdownTime
\* 0, every field of systemState and every lever at its initial value.
C3_ResetRestoresBaseline ==
    [][resetSystem
          => /\ ~systemState'.trip
             /\ systemState'.shutdownTime = 0
             /\ systemState' = initialSystemState
             /\ levers' = initialLevers]_vars

\* The baseline again after at least one tick had changed the state.
C3_Witness ==
    /\ nRecomputes > 0
    /\ systemState = initialSystemState
    /\ levers = initialLevers

\* C4: shutdownSystem sets shutdownTime to 10 s; a tick with elapsed time dt
\* lowers it by dt but not below 0; once 0 it stays 0 across every step
\* that is neither shutdownSystem nor resetSystem.
C4_ShutdownCountdown ==
    [][/\ shutdownSystem => systemState'.shutdownTime = 10 * 1000
       /\ fireTimer =>
              systemState'.shutdownTime =
                  Max(0, systemState.shutdownTime - (now' - systemState.lastUpdateTime))
       /\ (systemState.shutdownTime = 0 /\ ~shutdownSystem /\ ~resetSystem)
              => systemState'.shutdownTime = 0]_vars

\* A countdown partly run down: shutdownSystem, then a tick shorter than 10 s.
C4_Witness ==
    /\ systemState.shutdownTime > 0
    /\ systemState.shutdownTime < 10 * 1000
    /\ systemState.lastUpdateTime = now

\* C5: in a tick that starts with shutdownTime > 0, mainSteamTemp,
\* turbineSpeed, load, mainSteamFlow and mainSteamPressure do not increase.
C5_ShutdownDecay ==
    [][(fireTimer /\ systemState.shutdownTime > 0)
          => /\ systemState'.mainSteamTemp <= systemState.mainSteamTemp
             /\ systemState'.turbineSpeed <= systemState.turbineSpeed
             /\ systemState'.load <= systemState.load
             /\ systemState'.mainSteamFlow <= systemState.mainSteamFlow
             /\ systemState'.mainSteamPressure <= systemState.mainSteamPressure]_vars

\* C6: once the countdown has reached 0 (shutdownTime = 0, trip = true) a
\* tick leaves mainSteamTemp, mainSteamPressure, mainSteamFlow, turbineSpeed
\* and load as they are.
C6_HoldAfterCountdown ==
    [][(fireTimer /\ systemState.trip /\ systemState.shutdownTime = 0)
          => /\ systemState'.mainSteamTemp = systemState.mainSteamTemp
             /\ systemState'.mainSteamPressure = systemState.mainSteamPressure
             /\ systemState'.mainSteamFlow = systemState.mainSteamFlow
             /\ systemState'.turbineSpeed = systemState.turbineSpeed
             /\ systemState'.load = systemState.load]_vars

\* C7: in the state a tick leaves, mainSteamTemp > 620 implies trip.
C7_SameTickTrip ==
    systemState.mainSteamTemp > 620 * U => systemState.trip

\* C8: mainSteamPressure >= 0, 0 <= turbineSpeed <= 3600 and
\* 0 <= load <= 600 in every state reached by lever updates and ticks.
C8_PhysicalBounds ==
    /\ systemState.mainSteamPressure >= 0
    /\ systemState.turbineSpeed >= 0
    /\ systemState.turbineSpeed <= 3600 * U
    /\ systemState.load >= 0
    /\ systemState.load <= 600 * U

\* C9: after every tick and every updateEarnings, totalEarnings is
\* calculateEarnings of the load of the resulting state and of the time
\* since startTime.
C9_EarningsRederived ==
    [][(fireTimer \/ updateEarnings)
          => systemState'.totalEarnings =
                 calculateEarnings(systemState'.load,
                                   DurationSeconds(systemState', now'))]_vars

\* C10: totalEarnings does not decrease across any step but resetSystem.
C10_EarningsNeverDecrease ==
    [][~resetSystem
          => systemState'.totalEarnings >= systemState.totalEarnings]_vars

(***************************************************************************)
(* Properties of the levers and of the time slice of a recompute.          *)
(***************************************************************************)
\* C13: in every reachable state of the store, every lever has
\* minValue <= currentValue <= maxValue and minValue <= targetValue <=
\* maxValue, whatever values updateLever was asked to store and however
\* updateGradualMovement and resetSystem were interleaved.
C13_LeverRange ==
    \A id \in LeverIds :
        /\ minValue(id) <= levers[id].currentValue
        /\ levers[id].currentValue <= maxValue(id)
        /\ minValue(id) <= levers[id].targetValue
        /\ levers[id].targetValue <= maxValue(id)

\* A recompute is pending and every lever is at 0: the last updateLever
\* asked for a value below minValue and stored minValue.
C13_Witness == updateTimeout.live # {} /\ levers = initialLevers

\* C17: the deltaTime a recompute passes to calculateSystemState never spans
\* an interval an earlier recompute has covered: it is at most the time since
\* the previous recompute, also for the first recompute after resetSystem.
C17_DeltaTimeSincePreviousTick ==
    [][fireTimer => DeltaTime(systemState, now') <= now' - lastTick]_vars

(***************************************************************************)
(* Properties of the functions called directly.                            *)
(***************************************************************************)
\* The state a direct call of calculateSystemState returned first.
Result == call.results[1]

\* C11: calculateSystemState called with deltaTime <= 0 returns the input
\* state unchanged: every field of the result equals the same field of the
\* previous state, whatever that state is (the all-zero baseline included).
C11_NoTimeNoChange ==
    (call.fn = "calculateSystemState" /\ call.args.deltaTime <= 0 /\ Len(call.results) > 0)
        => \A f \in (DOMAIN Result) \cap (DOMAIN call.args.currentState) :
               Result[f] = call.args.currentState[f]

\* The lever vector with every value clamped into [minValue, maxValue].
ClampedLevers(leverValues) == [id \in LeverIds |-> ClampLever(id, leverValues[id])]

\* C12: calculateSystemState given a lever value below 0 or above 100 returns
\* the state it returns for that value clamped into [0, 100].
C12_EngineClampsLevers ==
    (call.fn = "calculateSystemState" /\ Len(call.results) > 0)
        => Result = calculateSystemStateAll(ClampedLevers(call.args.leverValues),
                                            call.args.currentState, call.args.deltaTime)

\* C14: for a positive rate (or response time) and a positive dt,
\* smoothApproach and interpolateValue return a value between current and
\* target, never past the target and never further from it than current;
\* with current = target they return that value.
C14_NoOvershoot ==
    (call.fn \in {"smoothApproach", "interpolateValue"} /\ Len(call.results) > 0)
        => /\ Min(call.args.current, call.args.target) <= Result
           /\ Result <= Max(call.args.current, call.args.target)
           /\ call.args.current = call.args.target => Result = call.args.current

\* interpolateValue moved a value part of the way up to its target.
C14_Witness ==
    /\ call.fn = "interpolateValue"
    /\ Len(call.results) > 0
    /\ call.args.current < Result
    /\ Result < call.args.target

\* C18: two invocations of calculateSystemState with the same lever values,
\* previous state and deltaTime return the same state, whenever they are
\* made.
C18_Determinism ==
    (call.fn \in {"calculateSystemState", "calculateSystemStateA"} /\ Len(call.results) = 2)
        => call.results[1] = call.results[2]

\* C19: for each of the twelve levers there are two lever vectors that differ
\* only in that lever and, with the same previous state and deltaTime, give
\* different indicator values.
C19_EveryLeverHasEffect ==
    (call.fn = "probe" /\ Len(call.results) > 0) => Result

\* C20: for lever values in 0..100 the basic calculateSystemState returns
\* 0 <= temperature <= 1200, 0 <= pressure <= 150, 0 <= turbineRPM <= 3500
\* and 0 <= powerOutput <= 500, with powerOutput equal to
\* temperature * pressure * turbineRPM / 1,000,000 capped at 500.
C20_BasicRanges ==
    (call.fn = "calculateSystemStateBasic" /\ Len(call.results) > 0)
        => /\ 0 <= Result.temperature /\ Result.temperature <= 1200 * U
           /\ 0 <= Result.pressure /\ Result.pressure <= 150 * U
           /\ 0 <= Result.turbineRPM /\ Result.turbineRPM <= 3500 * U
           /\ 0 <= Result.powerOutput /\ Result.powerOutput <= 500 * U
           /\ Result.powerOutput =
                  Min(500 * U,
                      BasePower(Result.temperature, Result.pressure, Result.turbineRPM))

\* The sum of calculateTemperature is below 0 (coal_feed, fuel_injection and
\* air_supply at 0, feedwater and cooling_water at 100: -300) and the
\* temperature returned is 0, while pressure and turbineRPM are at their caps.
C20_Witness ==
    /\ call.fn = "calculateSystemStateBasic"
    /\ Len(call.results) > 0
    /\ call.args.leverValues["coal_feed"] = 0
    /\ call.args.leverValues["fuel_injection"] = 0
    /\ call.args.leverValues["air_supply"] = 0
    /\ call.args.leverValues["feedwater"] = 100 * U
    /\ call.args.leverValues["cooling_water"] = 100 * U
    /\ Result.temperature = 0
    /\ Result.pressure = 150 * U
    /\ Result.turbineRPM = 3500 * U
    /\ Result.powerOutput = 0

(***************************************************************************)
(* Properties of the timers.                                               *)
(***************************************************************************)
\* C15: at most one recompute is pending at any time; an updateLever call
\* recomputes nothing and leaves one timer, due 200 ms after that call; and
\* a recompute runs only when that timer expires, once, with the values of
\* all twelve levers as they are then.  So a run of calls each within 200 ms
\* of the previous one causes exactly one recompute, 200 ms after the last.
C15_DebounceCoalescing ==
    /\ [](Cardinality(updateTimeout.live) <= 1)
    /\ [][(\E id \in MovedLevers : \E v \in RequestedValues : updateLever(id, v))
            => /\ updateTimeout'.live = {now + 200}
               /\ nRecomputes' = nRecomputes
               /\ systemState' = systemState]_vars
    /\ [][(nRecomputes' # nRecomputes \/ systemState' # systemState)
            => /\ updateTimeout.live = {updateTimeout.handle}
               /\ now' = updateTimeout.handle
               /\ updateTimeout'.live = {}
               /\ nRecomputes' = nRecomputes + 1
               /\ levers' = levers
               /\ systemState' =
                      RecomputedState([id \in LeverIds |-> levers[id].currentValue],
                                      systemState, now')]_vars

\* coal_feed was set to 100, and steam_flow 50 or 150 ms later; one recompute
\* has run, 200 ms after the second call, and it used both values.
C15_Witness ==
    /\ nRecomputes = 1
    /\ nClockSteps = 1
    /\ updateTimeout.live = {}
    /\ now > LoadTime + 200
    /\ levers["coal_feed"].currentValue = 100 * U
    /\ levers["steam_flow"].currentValue = 100 * U
    /\ systemState.lastUpdateTime = now
    /\ systemState.coalLoadingRate = 200 * U
    /\ systemState.mainSteamFlow > 0

\* C16: the physical state is recomputed periodically without any lever
\* being moved, so after shutdownSystem the countdown reaches 0 on its own.
C16_CountdownEnds == (systemState.shutdownTime > 0) ~> (systemState.shutdownTime = 0)

(***************************************************************************)
(* The store while the system is stopped, and the stages of the engine.    *)
(***************************************************************************)
\* The physical fields of a SystemState, and the earnings.
Physical(state) ==
    <<state.mainSteamTemp, state.mainSteamPressure, state.mainSteamFlow,
      state.turbineSpeed, state.load, state.totalEarnings>>

\* C21: while isRunning is false, updateLever and the recompute it schedules
\* change only the lever values: mainSteamTemp, mainSteamPressure,
\* mainSteamFlow, turbineSpeed, load and totalEarnings stay as they are.
C21_NoPhysicsWhileStopped ==
    [][(/\ ~systemState.isRunning
        /\ \/ nRecomputes' # nRecomputes
           \/ \E id \in MovedLevers : \E v \in RequestedValues : updateLever(id, v))
       => Physical(systemState') = Physical(systemState)]_vars

\* Water level dynamics of calculateBoilerResponse, before the level is
\* limited to the band 8..95: currentLevel + levelChange, with currentLevel
\* 60, evaporationRate newSteamFlow * 0.1 and feedRate_actual feedwater (t/h);
\* deltaTime in ms.
waterLevelBalance(feedwater, newSteamFlow, deltaTime) ==
    60 * U + MulDiv(feedwater - newSteamFlow \div 10, deltaTime, 1000 * 1000)

\* C22: a tick in which the boiler water level, as it follows from the
\* balance of feedwater and evaporation, is below 8 or above 95 sets
\* trip = true.
C22_WaterLevelTrip ==
    [][(/\ nRecomputes' # nRecomputes
        /\ systemState.shutdownTime = 0
        /\ LET level == waterLevelBalance(levers["feedwater"].currentValue,
                                          systemState'.mainSteamFlow,
                                          DeltaTime(systemState, now'))
           IN level < 8 * U \/ level > 95 * U)
       => systemState'.trip]_vars

\* C23: in a tick whose main steam flow is 0 the speed and load targets are
\* 0, and the turbineSpeed and load it outputs are the previous values moved
\* towards 0 by interpolateValue: never above the previous value, also when
\* the previous turbineSpeed is 0.
C23_CoastDown ==
    [][(/\ nRecomputes' # nRecomputes
        /\ systemState.shutdownTime = 0
        /\ systemState'.mainSteamFlow = 0)
       => /\ systemState'.turbineSpeed <= systemState.turbineSpeed
          /\ systemState'.load <= systemState.load
          /\ systemState'.turbineSpeed =
                 interpolateValue(systemState.turbineSpeed, 0, TURBINE_RESPONSE_TIME,
                                  DeltaTime(systemState, now'))
          /\ systemState'.load =
                 interpolateValue(systemState.load, 0, TURBINE_RESPONSE_TIME,
                                  DeltaTime(systemState, now'))]_vars

\* C24: every boiler stage computation with dt > 0 outputs a mainSteamTemp
\* in [200, 600] and a mainSteamPressure of at least 0.1.
C24_BoilerClamping ==
    [][(/\ nRecomputes' # nRecomputes
        /\ systemState.shutdownTime = 0
        /\ DeltaTime(systemState, now') > 0)
       => /\ 200 * U <= systemState'.mainSteamTemp
          /\ systemState'.mainSteamTemp <= 600 * U
          /\ systemState'.mainSteamPressure >= U \div 10]_vars

\* C25: the frequency a tick outputs is 50 + (turbineSpeed - 3000) / 60 of
\* the turbineSpeed the same tick outputs (to the last digit kept).
C25_FrequencyFollowsSpeed ==
    [][(nRecomputes' # nRecomputes /\ systemState.shutdownTime = 0)
       => Abs(systemState'.frequency
              - (50 * U + MulDiv(systemState'.turbineSpeed - 3000 * U, 1, 60))) <= 1]_vars

\* Values of the cooling_water lever a call is compared over.
CoolingSweep == {0, 10 * U, 50 * U, 100 * U}

\* C26: with all other inputs equal, the circulatingWaterFlow a tick
\* outputs does not decrease when the cooling_water lever is raised, over
\* the whole range 0..100.
C26_MonotoneWaterStage ==
    (/\ call.fn = "calculateSystemState"
     /\ Len(call.results) > 0
     /\ call.args.deltaTime > 0
     /\ call.args.currentState.shutdownTime = 0)
        => \A v \in CoolingSweep :
               v >= call.args.leverValues["cooling_water"]
                   => calculateSystemState(
                          [call.args.leverValues EXCEPT !["cooling_water"] = v],
                          call.args.currentState,
                          call.args.deltaTime).circulatingWaterFlow
                      >= Result.circulatingWaterFlow

(***************************************************************************)
(* Properties of the store's operations.                                   *)
(***************************************************************************)
\* C27: in every state of the store, shutdownTime > 0 implies trip = true.
C27_CountdownImpliesTrip == systemState.shutdownTime > 0 => systemState.trip

\* A countdown tick has run and the countdown is still going, tripped.
C27_Witness ==
    /\ nRecomputes > 0
    /\ systemState.shutdownTime > 0
    /\ systemState.shutdownTime < 10 * 1000
    /\ systemState.trip

\* C28: resetSystem leaves no recompute pending, also when one was scheduled
\* by an earlier updateLever; and from the baseline with nothing pending
\* the SystemState changes only by startSystem or shutdownSystem (a later
\* updateLever schedules a new recompute).
C28_ResetCancelsRecompute ==
    /\ [][resetSystem => updateTimeout'.live = {}]_vars
    /\ [][(systemState = ResetState /\ updateTimeout.live = {})
            => \/ systemState' = ResetState
               \/ systemState' = [ResetState EXCEPT !.isRunning = TRUE, !.startTime = now]
               \/ systemState' = ShutdownState(ResetState)]_vars

\* A recompute was scheduled and cancelled by resetSystem; its due time has
\* passed and no recompute has run.
C28_Witness ==
    /\ updateTimeout.handle # 0
    /\ updateTimeout.live = {}
    /\ now > updateTimeout.handle
    /\ nRecomputes = 0
    /\ systemState = ResetState

\* C29: startTime changes only when the first startSystem after a reset
\* sets it to the current time, and when resetSystem clears it: stopSystem
\* and a later startSystem leave it as it is.  The earnings written by a
\* recompute or by updateEarnings outside a shutdown are those of the time
\* since that first start, the stopped interval included.
C29_StartTimeSetOnce ==
    /\ [][systemState'.startTime # systemState.startTime
            => \/ /\ systemState.startTime = 0
                  /\ systemState' = [systemState EXCEPT !.isRunning = TRUE, !.startTime = now]
               \/ systemState' = ResetState]_vars
    /\ [][(systemState.startTime # 0 /\ systemState'.startTime # 0
            /\ systemState.shutdownTime = 0
            /\ systemState'.totalEarnings # systemState.totalEarnings)
            => systemState'.totalEarnings =
                   calculateEarnings(systemState'.powerOutput, now' - systemState.startTime)]_vars

\* The system was started and stopped, and startTime is still that of the
\* start: a recompute that ran later wrote the earnings of the time since
\* then, while the system was stopped.
C29_Witness ==
    /\ ~systemState.isRunning
    /\ systemState.startTime # 0
    /\ now > systemState.startTime
    /\ systemState.lastUpdateTime = now
    /\ systemState.totalEarnings > 0

\* C30: in every state of the store (the first one, and the one after
\* every step) each lever's currentValue equals its targetValue, so
\* updateGradualMovement changes no lever and no entry of actualSystemValues:
\* no step that changes one is a step of it.
C30_LeversNeverLag ==
    /\ \A id \in LeverIds : levers[id].currentValue = levers[id].targetValue
    /\ [][\A id \in LeverIds : levers'[id].currentValue = levers'[id].targetValue]_vars
    /\ [][(levers' # levers \/ actualSystemValues' # actualSystemValues)
            => ~updateGradualMovement]_vars

\* Levers have been moved to different values and a recompute has run.
C30_Witness ==
    /\ levers["coal_feed"].currentValue = 100 * U
    /\ levers["coal_feed"].targetValue = 100 * U
    /\ levers["steam_flow"].currentValue = 0
    /\ nRecomputes > 0
    /\ actualSystemValues = [id \in LeverIds |-> 0]

====
